---------------------------- MODULE Spec2Model ----------------------------
(***************************************************************************)
(* A model of ffmpeg_cmdline_utils:                                        *)
(*   - Spec     : FfmpegFrameReaderBuilder::spawn, FfmpegFrames::next and  *)
(*                Drop for FfmpegFrames (src/ffmpeg_ops.rs), together with *)
(*                the decoder child, its stdout pipe and a wall clock;     *)
(*                SpecFair adds the scheduling of the thread inside next();*)
(*   - SpecExit : the exit-status match that ends run_ffmpeg_command and   *)
(*                truncate_ffmpeg_err_msg;                                 *)
(*   - SpecRun  : run_ffmpeg_command (spawn, watchdog thread, drain loop); *)
(*                SpecRunFair adds the scheduling of its two threads;      *)
(*   - SpecInfo : the rotation match of VideoInfo::new                     *)
(*                (src/ffmpeg_stats.rs);                                   *)
(*   - SpecAlloc: the frame buffer of next() and RgbImage::from_raw;       *)
(*   - SpecCrop : Crop::new, Crop::union and validate_or_default           *)
(*                (src/video_frames.rs).                                   *)
(***************************************************************************)
EXTENDS Integers, Sequences, FiniteSets, TLC

VARIABLES
    \* ---- FfmpegFrameReaderBuilder (src/ffmpeg_ops.rs:86-91)
    cfg_num_frames,   \* Option<u32>: <<>> is None, <<n>> is Some(n)
    cfg_timeout_secs, \* Option<u64>
    \* ---- progress of spawn() and of the session
    pc,               \* position of the thread that owns the builder / session
    stats,            \* result of VideoInfo::new, once pc has left "builder"
    spawn_result,     \* what spawn() returned
    launched,         \* spawn_ffmpeg_command(Ffmpeg, ..) has been called
    \* ---- FfmpegFrames (src/ffmpeg_ops.rs:20-28)
    x, y,
    child,            \* "none", "running", "exited" (not yet waited on), "reaped"
    num_frames,
    frames_read,
    timeout_time,
    finished,
    teardowns,        \* how often kill-then-wait was run on the child so
                      \* far: "never", "once" or "repeatedly"
    \* ---- locals of next()
    raw_buf_len,      \* raw_buf.len()
    raw_buf,          \* the filled prefix raw_buf[..buf_head], as stream positions
    \* ---- the decoder, its stdout pipe, the clock
    now,              \* SystemTime::now(), in seconds
    stream_len,       \* number of bytes the decoder writes before it exits
    written,          \* bytes the decoder has written to its stdout so far
    consumed,         \* bytes the session has read from the pipe so far
    \* ---- what the caller has seen
    frames,           \* the frames next() returned, in order
    last_result,      \* result of the latest next() call that returned
    saw_none,         \* some next() call has returned None
    read_failed,      \* some read returned Err
    call_start,       \* clock value when the latest next() call started, -1 if none
    call_frames_read, \* frames_read when the latest next() call started
    finished_by,      \* which exit of next() first set finished
    \* ---- VideoInfo::new (src/ffmpeg_stats.rs:64-207)
    i_pc,             \* "parsed": ffprobe's output is at hand; "done": returned
    i_input,          \* what ffprobe reported
    i_result,         \* what VideoInfo::new returned
    \* ---- the end of run_ffmpeg_command (src/ffmpeg_ops.rs:406-425)
    e_pc,             \* "joined": the watchdog's result is at hand; "done"
    e_input,          \* exit_status, stdout_acc, stderr_acc
    e_result,         \* what run_ffmpeg_command returned
    \* ---- run_ffmpeg_command (src/ffmpeg_ops.rs:321-426), the calling thread
    r_pc,             \* position of the calling thread
    r_stderr_null,    \* the parameter stderr_null
    r_spawn,          \* how Command::spawn ended: "pending", "ok" or an error kind
    stdout_done,
    stderr_done,
    stdout_acc,
    stderr_acc,
    r_result,         \* what run_ffmpeg_command returned
    r_pipe_read,      \* some read of a pipe has been made
    r_read_failed,    \* some read of a pipe returned Err
    \* ---- the watchdog thread
    w_pc,             \* "none" (not started), "poll", "sleep", "done"
    timeout_counter_secs,
    initial_fast_counts,
    w_result,         \* the thread's return value
    polls,            \* calls of child.try_wait() so far
    sleeps,           \* sleeps so far: how many of 10 ms, how many of 1 s
    \* ---- the child and its pipes
    r_child,          \* "none", "running", "exited" (not yet waited on), "reaped"
    r_code,           \* the child's exit code
    out_total,        \* bytes the child writes to stdout before it exits
    err_total,        \* bytes the child writes to stderr before it exits
    out_written,      \* bytes the child has written to stdout
    out_read,         \* bytes read from the stdout pipe
    err_written,      \* bytes the child has written to stderr
    err_read,         \* bytes read from the stderr pipe
    \* ---- the frame buffer of next() (src/ffmpeg_ops.rs:45, 72-73)
    a_pc,             \* "idle", "enter", "filled", "built", "panicked"
    a_input,          \* self.x, self.y and the build's overflow checks
    a_len,            \* raw_buf.len()
    \* ---- Crop (src/video_frames.rs:36-89)
    c_pc,             \* "idle", "call", "new", "validate", "returned",
                      \* "panicked", "aborted"
    c_input,          \* the build's overflow checks and the call made
    c_self,           \* the Crop value in hand
    c_depth,          \* stack frames of Crop::new / validate_or_default
    c_result          \* the Crop returned

framesVars ==
    << cfg_num_frames, cfg_timeout_secs, pc, stats, spawn_result, launched, x, y,
       child, num_frames, frames_read, timeout_time, finished, teardowns,
       raw_buf_len,
       raw_buf, now, stream_len, written, consumed, frames, last_result,
       saw_none, read_failed, call_start, call_frames_read, finished_by >>

infoVars == << i_pc, i_input, i_result >>

exitVars == << e_pc, e_input, e_result >>

callerVars ==
    << r_pc, r_stderr_null, r_spawn, stdout_done, stderr_done, stdout_acc,
       stderr_acc, r_result, r_pipe_read, r_read_failed >>

watchdogVars ==
    << w_pc, timeout_counter_secs, initial_fast_counts, w_result, polls, sleeps >>

childVars ==
    << r_child, r_code, out_total, err_total, out_written, out_read, err_written,
       err_read >>

runVars == << callerVars, watchdogVars, childVars >>

allocVars == << a_pc, a_input, a_len >>

cropVars == << c_pc, c_input, c_self, c_depth, c_result >>

nonFrames == << infoVars, exitVars, runVars, allocVars, cropVars >>

nonInfo == << framesVars, exitVars, runVars, allocVars, cropVars >>

nonExit == << framesVars, infoVars, runVars, allocVars, cropVars >>

nonRun == << framesVars, infoVars, exitVars, allocVars, cropVars >>

nonAlloc == << framesVars, infoVars, exitVars, runVars, cropVars >>

nonCrop == << framesVars, infoVars, exitVars, runVars, allocVars >>

vars == << framesVars, infoVars, exitVars, runVars, allocVars, cropVars >>

-----------------------------------------------------------------------------
(* Bounds of the model.                                                     *)

\* u32 is modelled with WordBits bits.
WordBits == 5
\* Largest width / height the prober reports.
MaxDim == 2
\* Largest frame limit given to the builder.
MaxFrames == 2
\* Largest timeout (seconds) given to the builder.
MaxTimeout == 1
\* Last clock value.
MaxNow == 2
\* Longest byte stream the decoder writes.
MaxStream == 7
\* Capacity of the stdout pipe.
PipeCap == 3

RECURSIVE Pow2(_)
Pow2(n) == IF n = 0 THEN 1 ELSE 2 * Pow2(n - 1)

U32_MAX == Pow2(WordBits) - 1

Min(a, b) == IF a <= b THEN a ELSE b

Some(v) == << v >>
None == << >>
UnwrapOr(o, d) == IF o = << >> THEN d ELSE o[1]

\* FfmpegCmdResult: Ok(FfmpegOutput) or Err(FfmpegErrorKind)
CmdOk(out) == [tag |-> "Ok", text |-> << >>, stdout |-> out]
CmdErr(tag, text) == [tag |-> tag, text |-> text, stdout |-> << >>]

\* Stream positions from + 1 .. from + n, in order.
Bytes(from, n) == [ i \in 1..n |-> from + i ]

-----------------------------------------------------------------------------
(* FfmpegFrames::next and Drop                                              *)

\* [mutant] the deadline is never found to have passed
ExceededTimeout_Never(t, deadline) == FALSE

\* SystemTime::now() > self.timeout_time
ExceededTimeout(t, deadline) == t > deadline

\* (self.x * self.y * 3) as usize, the product taken in u32
RawBufLen(w, h) == (w * h * 3) % Pow2(WordBits)

\* self.child.kill(); self.child.wait(): the child is signalled (an error of
\* kill on a child that is already gone is ignored) and wait blocks until it
\* has exited, then reaps it.
KillAndWait(c) == IF c = "none" THEN "none" ELSE "reaped"

\* One more run of kill-then-wait.
Counted(n) == IF n = "never" THEN "once" ELSE "repeatedly"

\* bytes that can be read from the pipe without blocking
Avail == written - consumed

\* the write end of the pipe is closed once the decoder is gone
WriteEndClosed == child \in {"exited", "reaped"}

envVars == << now, stream_len, written >>
cfgVars == << cfg_num_frames, cfg_timeout_secs >>
spawnVars == << stats, spawn_result, launched >>
fieldVars == << x, y, num_frames, timeout_time >>

callVars == << call_start, call_frames_read >>

\* The variables of VideoInfo::new while no probe is modelled.
InfoIdle ==
    /\ i_pc = "idle"
    /\ i_input = << >>
    /\ i_result = << >>

\* The variables of the end of run_ffmpeg_command while no run is modelled.
ExitIdle ==
    /\ e_pc = "idle"
    /\ e_input = << >>
    /\ e_result = << >>

\* No frame buffer is being sized.
AllocIdle ==
    /\ a_pc = "idle"
    /\ a_input = << >>
    /\ a_len = 0

\* No Crop is being built.
CropIdle ==
    /\ c_pc = "idle"
    /\ c_input = << >>
    /\ c_self = << >>
    /\ c_depth = 0
    /\ c_result = << >>

\* run_ffmpeg_command has not spawned anything yet.
NoRun ==
    /\ r_spawn = "pending"
    /\ stdout_done = FALSE
    /\ stderr_done = FALSE
    /\ stdout_acc = << >>
    /\ stderr_acc = << >>
    /\ r_result = << >>
    /\ r_pipe_read = FALSE
    /\ r_read_failed = FALSE
    /\ w_pc = "none"
    /\ timeout_counter_secs = 0
    /\ initial_fast_counts = 0
    /\ w_result = << >>
    /\ polls = 0
    /\ sleeps = [fast |-> 0, slow |-> 0]
    /\ r_child = "none"
    /\ r_code = 0
    /\ out_total = 0
    /\ err_total = 0
    /\ out_written = 0
    /\ out_read = 0
    /\ err_written = 0
    /\ err_read = 0

\* The variables of run_ffmpeg_command while no call is modelled.
RunIdle ==
    /\ r_pc = "idle"
    /\ r_stderr_null = TRUE
    /\ NoRun

\* No FfmpegFrames value has been built yet.
NoSession ==
    /\ stats = [ok |-> FALSE, err |-> "none", resolution |-> << 0, 0 >>]
    /\ spawn_result = "pending"
    /\ launched = FALSE
    /\ x = 0
    /\ y = 0
    /\ child = "none"
    /\ teardowns = "never"
    /\ num_frames = 0
    /\ frames_read = 0
    /\ timeout_time = 0
    /\ finished = FALSE
    /\ raw_buf_len = 0
    /\ raw_buf = << >>
    /\ now = 0
    /\ stream_len = 0
    /\ written = 0
    /\ consumed = 0
    /\ frames = << >>
    /\ last_result = "none"
    /\ saw_none = FALSE
    /\ read_failed = FALSE
    /\ call_start = -1
    /\ call_frames_read = 0
    /\ finished_by = "none"

\* FfmpegFrameReaderBuilder::new followed by any of the setters
InitFrames ==
    /\ cfg_num_frames \in {None} \cup { Some(n) : n \in 0..MaxFrames }
    /\ cfg_timeout_secs \in {None} \cup { Some(t) : t \in 0..MaxTimeout }
    /\ pc = "builder"
    /\ NoSession

\* The variables of the frame reader while no builder exists.
FramesIdle ==
    /\ cfg_num_frames = None
    /\ cfg_timeout_secs = None
    /\ pc = "unused"
    /\ NoSession

\* The errors VideoInfo::new fails with: those of run_ffmpeg_command on
\* ffprobe (the tool is not installed, it exited non-zero) and those of
\* reading its output.
ProbeFailures == {"FfmpegNotFound", "FfmpegInternal", "JsonError"}

\* What VideoInfo::new can hand to spawn(): an error, or a record whose
\* resolution is any pair of u32 values.
ProbeOutcomes ==
    { [ok |-> FALSE, err |-> e, resolution |-> << 0, 0 >>] : e \in ProbeFailures }
        \cup { [ok |-> TRUE, err |-> "none", resolution |-> << w, h >>] :
                  w, h \in 0..MaxDim }

\* .map_err(|e| FfmpegErrorKind::Io(e.to_string()))
ProbeErrorOfSpawn(e) == CmdErr("Io", e)

\* [mutant] only a resolution with both dimensions zero is refused
InvalidResolution_Both(w, h) == w = 0 /\ h = 0

\* if x == 0 || y == 0 { return Err(InvalidResolution) }
InvalidResolution(w, h) == w = 0 \/ h = 0

\* [mutant] every spawn failure is the generic Io error
SpawnError_Generic(kind) == CmdErr("Io", kind)

\* the map_err of spawn_ffmpeg_command: NotFound => FfmpegNotFound,
\* _ => Io(format!("{:?}", e.kind()))
SpawnError(kind) ==
    IF kind = "NotFound" THEN CmdErr("FfmpegNotFound", << >>)
    ELSE CmdErr("Io", kind)

\* The error kinds Command::spawn fails with.
SpawnFailures == {"NotFound", "PermissionDenied"}

\* let stats = VideoInfo::new(&self.src_path).map_err(|e| Io(e.to_string()))?;
SpawnProbe ==
    /\ pc = "builder"
    /\ \E s \in ProbeOutcomes :
          /\ stats' = s
          /\ IF s.ok
                THEN pc' = "check" /\ UNCHANGED spawn_result
                ELSE pc' = "failed" /\ spawn_result' = ProbeErrorOfSpawn(s.err).tag
    /\ UNCHANGED << nonFrames, cfgVars, launched, fieldVars, child, teardowns, frames_read, finished,
                    raw_buf_len, raw_buf, envVars, consumed, frames, last_result,
                    saw_none, read_failed, callVars, finished_by >>

\* let (x, y) = stats.resolution(); bail out on a zero dimension
SpawnCheckResolution ==
    /\ pc = "check"
    /\ IF InvalidResolution(stats.resolution[1], stats.resolution[2])
          THEN pc' = "failed" /\ spawn_result' = "InvalidResolution"
          ELSE pc' = "launch" /\ UNCHANGED spawn_result
    /\ UNCHANGED << nonFrames, cfgVars, stats, launched, fieldVars, child, teardowns, frames_read,
                    finished, raw_buf_len, raw_buf, envVars, consumed, frames,
                    last_result, saw_none, read_failed, callVars, finished_by >>

\* spawn_ffmpeg_command(Ffmpeg, &args, true)?, then the FfmpegFrames value
SpawnLaunch ==
    /\ pc = "launch"
    /\ launched' = TRUE
    /\ \E outcome \in {"ok"} \cup SpawnFailures :
          IF outcome = "ok"
             THEN /\ \E len \in 0..MaxStream : stream_len' = len
                  /\ child' = "running"
                  /\ x' = stats.resolution[1]
                  /\ y' = stats.resolution[2]
                  /\ num_frames' = UnwrapOr(cfg_num_frames, U32_MAX)
                  /\ frames_read' = 0
                  /\ timeout_time' = now + UnwrapOr(cfg_timeout_secs, U32_MAX)
                  /\ finished' = FALSE
                  /\ spawn_result' = "Ok"
                  /\ pc' = "idle"
             ELSE /\ spawn_result' = SpawnError(outcome).tag
                  /\ pc' = "failed"
                  /\ UNCHANGED << stream_len, child, fieldVars, frames_read,
                                  finished >>
    /\ UNCHANGED << nonFrames, cfgVars, stats, teardowns, raw_buf_len, raw_buf, now,
                    written, consumed, frames, last_result, saw_none, read_failed,
                    callVars, finished_by >>

\* [mutant] the frame limit is not an exit condition
ExitCondition_NoLimit(fin, fr, nf, t, deadline) ==
    fin \/ ExceededTimeout(t, deadline)

\* [mutant] finished is not an exit condition
ExitCondition_NoFinished(fin, fr, nf, t, deadline) ==
    fr >= nf \/ ExceededTimeout(t, deadline)

\* [mutant] the frame limit is passed by one
ExitCondition_OffByOne(fin, fr, nf, t, deadline) ==
    fin \/ fr > nf \/ ExceededTimeout(t, deadline)

\* if self.finished || read_enough_frames || exceeded_timeout
ExitCondition(fin, fr, nf, t, deadline) ==
    fin \/ fr >= nf \/ ExceededTimeout(t, deadline)

\* The head of next(): the exit conditions, else the fresh buffer.
NextEnter ==
    /\ pc = "idle"
    /\ call_start' = now
    /\ call_frames_read' = frames_read
    /\ IF ExitCondition(finished, frames_read, num_frames, now, timeout_time)
          THEN /\ finished' = TRUE
               /\ child' = KillAndWait(child)
               /\ teardowns' = Counted(teardowns)
               /\ last_result' = "None"
               /\ saw_none' = TRUE
               /\ finished_by' =
                     IF finished THEN finished_by
                     ELSE IF frames_read >= num_frames THEN "limit"
                     ELSE "deadline_at_start"
               /\ UNCHANGED << pc, raw_buf_len, raw_buf >>
          ELSE /\ raw_buf_len' = RawBufLen(x, y)
               /\ raw_buf' = << >>
               /\ pc' = "loop"
               /\ UNCHANGED << finished, child, teardowns, last_result, saw_none,
                               finished_by >>
    /\ UNCHANGED << nonFrames, cfgVars, spawnVars, fieldVars, frames_read, envVars, consumed,
                    frames, read_failed >>

\* while buf_head < raw_buf.len() { if now > timeout_time { abort } ... }
\* and, once the buffer is full, frames_read += 1; Some(frame)
NextLoop ==
    /\ pc = "loop"
    /\ IF Len(raw_buf) < raw_buf_len
          THEN IF ExceededTimeout(now, timeout_time)
                  THEN /\ finished' = TRUE
                       /\ finished_by' = "deadline_mid_frame"
                       /\ last_result' = "None"
                       /\ saw_none' = TRUE
                       /\ raw_buf' = << >>
                       /\ pc' = "idle"
                       /\ UNCHANGED << frames_read, frames >>
                  ELSE /\ pc' = "read"
                       /\ UNCHANGED << finished, finished_by, last_result,
                                       saw_none, raw_buf, frames_read, frames >>
          ELSE /\ frames_read' = (frames_read + 1) % Pow2(WordBits)
               /\ frames' = Append(frames, raw_buf)
               /\ last_result' = "Some"
               /\ raw_buf' = << >>
               /\ pc' = "idle"
               /\ UNCHANGED << finished, finished_by, saw_none >>
    /\ UNCHANGED << nonFrames, cfgVars, spawnVars, fieldVars, child, teardowns, raw_buf_len, envVars,
                    consumed, read_failed, callVars >>

\* [mutant] each read starts again at the beginning of the buffer
ReadData_Overwrite ==
    /\ pc = "read"
    /\ Avail > 0
    /\ \E n \in 1..Min(Avail, raw_buf_len - Len(raw_buf)) :
          /\ raw_buf' =
                Bytes(consumed, n) \o SubSeq(raw_buf, n + 1, Len(raw_buf))
                    \o [ i \in 1..Min(n, Len(raw_buf)) |-> 0 ]
          /\ consumed' = consumed + n
    /\ pc' = "loop"
    /\ UNCHANGED << nonFrames, cfgVars, spawnVars, fieldVars, child, teardowns, frames_read, finished,
                    raw_buf_len, envVars, frames, last_result, saw_none,
                    read_failed, callVars, finished_by >>

\* stdout.read(slice_to_read_into) returns Ok(bytes_read), bytes_read > 0
ReadData ==
    /\ pc = "read"
    /\ Avail > 0
    /\ \E n \in 1..Min(Avail, raw_buf_len - Len(raw_buf)) :
          /\ raw_buf' = raw_buf \o Bytes(consumed, n)
          /\ consumed' = consumed + n
    /\ pc' = "loop"
    /\ UNCHANGED << nonFrames, cfgVars, spawnVars, fieldVars, child, teardowns, frames_read, finished,
                    raw_buf_len, envVars, frames, last_result, saw_none,
                    read_failed, callVars, finished_by >>

\* [mutant] the partly filled buffer is returned as a frame
AbortFrame_ReturnPartial(cause, failed) ==
    /\ finished' = TRUE
    /\ finished_by' = cause
    /\ read_failed' = failed
    /\ last_result' = "Some"
    /\ frames' = Append(frames, raw_buf)
    /\ raw_buf' = << >>
    /\ pc' = "idle"
    /\ UNCHANGED << nonFrames, cfgVars, spawnVars, fieldVars, child, teardowns, frames_read,
                    raw_buf_len, envVars, consumed, saw_none, callVars >>

\* The Err(_) | Ok(0) arm: finished is set and None returned; raw_buf is dropped.
AbortFrame(cause, failed) ==
    /\ finished' = TRUE
    /\ finished_by' = cause
    /\ read_failed' = failed
    /\ last_result' = "None"
    /\ saw_none' = TRUE
    /\ raw_buf' = << >>
    /\ pc' = "idle"
    /\ UNCHANGED << nonFrames, cfgVars, spawnVars, fieldVars, child, teardowns, frames_read,
                    raw_buf_len, envVars, consumed, frames, callVars >>

\* stdout.read returns Ok(0): the pipe is empty and its write end is closed
ReadEof ==
    /\ pc = "read"
    /\ Avail = 0
    /\ WriteEndClosed
    /\ AbortFrame("eof", read_failed)

\* stdout.read returns Err(_)
ReadErr ==
    /\ pc = "read"
    /\ AbortFrame("read_error", TRUE)

\* [mutant] drop without kill and wait
Drop_NoTeardown ==
    /\ pc = "idle"
    /\ pc' = "dropped"
    /\ UNCHANGED << nonFrames, cfgVars, spawnVars, fieldVars, child, teardowns, frames_read, finished,
                    raw_buf_len, raw_buf, envVars, consumed, frames, last_result,
                    saw_none, read_failed, callVars, finished_by >>

\* impl Drop for FfmpegFrames
Drop ==
    /\ pc = "idle"
    /\ child' = KillAndWait(child)
    /\ teardowns' = Counted(teardowns)
    /\ pc' = "dropped"
    /\ UNCHANGED << nonFrames, cfgVars, spawnVars, fieldVars, frames_read, finished,
                    raw_buf_len, raw_buf, envVars, consumed, frames, last_result,
                    saw_none, read_failed, callVars, finished_by >>

\* The decoder writes some more of its output into the pipe.
DecoderWrite ==
    /\ child = "running"
    /\ \E n \in 1..Min(stream_len - written, PipeCap - Avail) :
          written' = written + n
    /\ UNCHANGED << nonFrames, cfgVars, pc, spawnVars, fieldVars, child, teardowns, frames_read,
                    finished, raw_buf_len, raw_buf, now, stream_len, consumed,
                    frames, last_result, saw_none, read_failed, callVars,
                    finished_by >>

\* The decoder has written everything and exits, which closes its stdout.
DecoderExit ==
    /\ child = "running"
    /\ written = stream_len
    /\ child' = "exited"
    /\ UNCHANGED << nonFrames, cfgVars, pc, spawnVars, fieldVars, teardowns, frames_read, finished,
                    raw_buf_len, raw_buf, envVars, consumed, frames, last_result,
                    saw_none, read_failed, callVars, finished_by >>

\* The wall clock advances.
Tick ==
    /\ now < MaxNow
    /\ now' = now + 1
    /\ UNCHANGED << nonFrames, cfgVars, pc, spawnVars, fieldVars, child, teardowns, frames_read,
                    finished, raw_buf_len, raw_buf, stream_len, written, consumed,
                    frames, last_result, saw_none, read_failed, callVars,
                    finished_by >>

NextFrames ==
    \/ SpawnProbe
    \/ SpawnCheckResolution
    \/ SpawnLaunch
    \/ NextEnter
    \/ NextLoop
    \/ ReadData
    \/ ReadEof
    \/ ReadErr
    \/ Drop
    \/ DecoderWrite
    \/ DecoderExit
    \/ Tick

Init == InitFrames /\ InfoIdle /\ ExitIdle /\ RunIdle /\ AllocIdle /\ CropIdle

Next == NextFrames

Spec == Init /\ [][Next]_vars

\* The thread inside next() is scheduled: it takes the next step of the call
\* when that step can be taken; a read returns when the pipe has data or is
\* at end-of-stream. Nothing obliges the caller to call next() or to drop
\* the session, the decoder to write or exit, or a read to fail.
FairCall ==
    /\ WF_vars(NextLoop)
    /\ WF_vars(ReadData)
    /\ WF_vars(ReadEof)

SpecFair == Spec /\ FairCall

-----------------------------------------------------------------------------
(* VideoInfo::new (src/ffmpeg_stats.rs)                                     *)

\* i64 is modelled with I64Bits bits.
I64Bits == 11
\* Longest rotation string ffprobe reports.
MaxStrLen == 4
\* Largest magnitude of a rotation ffprobe reports as a number.
MaxAbsRot == 300

I64_MIN == 0 - Pow2(I64Bits - 1)
I64_MAX == Pow2(I64Bits - 1) - 1

Digits == {"0", "1", "2", "7", "8", "9"}

\* The characters rotation strings are made of.
RotChars == Digits \cup {"-", "+", "x"}

DigitVal(c) ==
    CASE c = "0" -> 0
      [] c = "1" -> 1
      [] c = "2" -> 2
      [] c = "7" -> 7
      [] c = "8" -> 8
      [] c = "9" -> 9

DigitChar(d) ==
    CASE d = 0 -> "0"
      [] d = 1 -> "1"
      [] d = 2 -> "2"
      [] d = 3 -> "3"
      [] d = 4 -> "4"
      [] d = 5 -> "5"
      [] d = 6 -> "6"
      [] d = 7 -> "7"
      [] d = 8 -> "8"
      [] d = 9 -> "9"

\* The value of a non-empty string of decimal digits.
RECURSIVE DecVal(_)
DecVal(ds) ==
    IF Len(ds) = 0 THEN 0
    ELSE 10 * DecVal(SubSeq(ds, 1, Len(ds) - 1)) + DigitVal(ds[Len(ds)])

\* str::parse::<i64>: an optional sign, then one or more digits, the value
\* in range; anything else is a ParseIntError.
ParseI64(str) ==
    LET signed == Len(str) > 0 /\ str[1] \in {"+", "-"}
        ds == IF signed THEN Tail(str) ELSE str
        v == IF signed /\ str[1] = "-" THEN 0 - DecVal(ds) ELSE DecVal(ds)
    IN  IF Len(ds) = 0 \/ \E i \in 1..Len(ds) : ds[i] \notin Digits
           THEN [ok |-> FALSE, v |-> 0]
        ELSE IF v < I64_MIN \/ v > I64_MAX
           THEN [ok |-> FALSE, v |-> 0]
        ELSE [ok |-> TRUE, v |-> v]

\* The decimal digits of a natural number.
RECURSIVE NatToString(_)
NatToString(n) ==
    IF n < 10 THEN << DigitChar(n) >>
    ELSE Append(NatToString(n \div 10), DigitChar(n % 10))

\* i64::to_string
I64ToString(n) == IF n < 0 THEN << "-" >> \o NatToString(0 - n) ELSE NatToString(n)

RotOk(r) == [ok |-> TRUE, rot |-> r, err |-> "none"]
RotErr(e) == [ok |-> FALSE, rot |-> "none", err |-> e]

\* error_out: Err(VideoInfoError::ParseIntError(..))
error_out == RotErr("ParseIntError")

\* [mutant] a string rotation outside the accepted values counts as no rotation
RotationOfString_Default(str) ==
    LET rotation == ParseI64(str)
    IN  IF ~rotation.ok THEN RotErr("ParseIntError")
        ELSE IF rotation.v = 90 THEN RotOk("Rot90")
        ELSE IF rotation.v = 180 THEN RotOk("Rot180")
        ELSE IF rotation.v \in {-90, 270} THEN RotOk("Rot270")
        ELSE RotOk("Rot0")

\* the Value::String(rotation) arm
RotationOfString(str) ==
    LET rotation == ParseI64(str)
    IN  IF ~rotation.ok THEN RotErr("ParseIntError")
        ELSE IF rotation.v = 0 THEN RotOk("Rot0")
        ELSE IF rotation.v = 90 THEN RotOk("Rot90")
        ELSE IF rotation.v = 180 THEN RotOk("Rot180")
        ELSE IF rotation.v \in {-90, 270} THEN RotOk("Rot270")
        ELSE error_out

\* the Value::Number(rotation) arm; repr is the number's representation in
\* serde_json: as_i64() is Some for "i64" and None for a u64 above i64::MAX
\* and for a float.
RotationOfNumber(repr, n) ==
    IF repr # "i64" THEN error_out
    ELSE IF n = 0 THEN RotOk("Rot0")
    ELSE IF n = 90 THEN RotOk("Rot90")
    ELSE IF n \in {180, -180} THEN RotOk("Rot180")
    ELSE IF n \in {-90, 270} THEN RotOk("Rot270")
    ELSE error_out

\* let rotation = match streams_of_type(&stats_parsed, "video") { .. }
Rotation(streams, val) ==
    IF streams = "not_array" THEN RotOk("Rot0")
    ELSE IF streams = "no_video" THEN RotOk("Rot0")
    ELSE CASE val.t = "null" -> RotOk("Rot0")
           [] val.t = "string" -> RotationOfString(val.s)
           [] val.t = "number" -> RotationOfNumber(val.repr, val.n)
           [] OTHER -> RotErr("JsonError")

\* u64 is modelled with I64Bits + 1 bits.
U64_MAX == Pow2(I64Bits + 1) - 1

\* str::parse::<u64> and str::parse::<u32>: an optional "+", then one or
\* more digits, the value at most max.
ParseUnsigned(str, max) ==
    LET ds == IF Len(str) > 0 /\ str[1] = "+" THEN Tail(str) ELSE str
    IN  IF Len(ds) = 0 \/ \E i \in 1..Len(ds) : ds[i] \notin Digits
           THEN [ok |-> FALSE, v |-> 0]
        ELSE IF DecVal(ds) > max
           THEN [ok |-> FALSE, v |-> 0]
        ELSE [ok |-> TRUE, v |-> DecVal(ds)]

\* str::parse::<f64>, on texts without exponent, "inf" or "nan": an optional
\* sign, then digits with at most one ".", at least one digit. The value is
\* kept as the text it was parsed from.
ParseF64(str) ==
    LET body == IF Len(str) > 0 /\ str[1] \in {"+", "-"} THEN Tail(str) ELSE str
        dots == { i \in 1..Len(body) : body[i] = "." }
        digits == { i \in 1..Len(body) : body[i] \in Digits }
    IN  IF /\ dots \cup digits = 1..Len(body)
           /\ Cardinality(dots) <= 1
           /\ digits # {}
           THEN [ok |-> TRUE, v |-> << "f64", str >>]
           ELSE [ok |-> FALSE, v |-> 0]

\* [mutant] a string that does not parse counts as 0
FormatField_Lenient(val, parsed, err) ==
    IF val.t = "string" /\ parsed.ok
       THEN [ok |-> TRUE, v |-> parsed.v, err |-> "none"]
       ELSE [ok |-> TRUE, v |-> 0, err |-> "none"]

\* A format field (duration, size, bit_rate):
\* if let Value::String(d) = field { d.parse().map_err(..)? } else { 0 };
\* parsed is the result of the parse, err the error it maps to.
FormatField(val, parsed, err) ==
    IF val.t = "string"
       THEN IF parsed.ok
               THEN [ok |-> TRUE, v |-> parsed.v, err |-> "none"]
               ELSE [ok |-> FALSE, v |-> 0, err |-> err]
       ELSE [ok |-> TRUE, v |-> 0, err |-> "none"]

\* first_u32_from_video_streams(..).unwrap_or(0): the field of the first
\* video stream that has it as a number, 0 when there is none.
first_u32_from_video_streams(streams, v) == IF streams = "video" THEN v ELSE 0

\* [mutant] the resolution is never swapped
Resolution_NoSwap(rot, first_width, first_height) == << first_width, first_height >>

\* resolution: swapped unless the rotation is Rot0 or Rot180
Resolution(rot, first_width, first_height) ==
    IF rot \in {"Rot0", "Rot180"} THEN << first_width, first_height >>
    ELSE << first_height, first_width >>

InfoErr(e) ==
    [ok |-> FALSE, err |-> e, rotation |-> "none", resolution |-> << 0, 0 >>,
     duration |-> 0, size |-> 0, bit_rate |-> 0]

\* VideoInfo::new, from get_video_stats to Ok(VideoInfo { .. }); rotation is
\* the local of that name.
VideoInfoOf(in) ==
    LET duration ==
            FormatField(in.duration, ParseF64(in.duration.s), "ParseFloatError")
        size ==
            FormatField(in.size, ParseUnsigned(in.size.s, U64_MAX), "ParseIntError")
        bit_rate ==
            FormatField(in.bit_rate, ParseUnsigned(in.bit_rate.s, U32_MAX),
                        "ParseIntError")
        rotation == Rotation(in.streams, in.rotation)
        first_width == first_u32_from_video_streams(in.streams, in.width)
        first_height == first_u32_from_video_streams(in.streams, in.height)
    IN  IF in.stats # "ok" THEN InfoErr(in.stats)
        ELSE IF ~duration.ok THEN InfoErr(duration.err)
        ELSE IF ~size.ok THEN InfoErr(size.err)
        ELSE IF ~bit_rate.ok THEN InfoErr(bit_rate.err)
        ELSE IF ~rotation.ok THEN InfoErr(rotation.err)
        ELSE [ok |-> TRUE, err |-> "none", rotation |-> rotation.rot,
              resolution |-> Resolution(rotation.rot, first_width, first_height),
              duration |-> duration.v, size |-> size.v, bit_rate |-> bit_rate.v]

JsonNull == [t |-> "null", s |-> << >>, repr |-> "none", n |-> 0]
JsonString(str) == [t |-> "string", s |-> str, repr |-> "none", n |-> 0]
JsonNumber(repr, n) == [t |-> "number", s |-> << >>, repr |-> repr, n |-> n]
JsonOther == [t |-> "other", s |-> << >>, repr |-> "none", n |-> 0]

Strings == UNION { [1..k -> RotChars] : k \in 0..MaxStrLen }

\* The values the rotation field of the first video stream can have.
RotationValues ==
    {JsonNull, JsonOther, JsonNumber("u64", 0), JsonNumber("f64", 0)}
        \cup { JsonNumber("i64", n) : n \in (0 - MaxAbsRot)..MaxAbsRot }
        \cup { JsonString(str) : str \in Strings }

\* Longest format field text ffprobe reports.
MaxFieldLen == 2

\* The characters format field texts are made of.
FieldChars == {"1", "9", "+", "-", ".", "x"}

\* The values a format field can have: absent (indexing gives Null), a
\* number, another non-string value, or a string.
FieldValues ==
    {JsonNull, JsonNumber("i64", 1), JsonOther}
        \cup { JsonString(str) : str \in UNION { [1..k -> FieldChars] : k \in 0..MaxFieldLen } }

\* A few of them: absent, a string that parses, a string that does not.
FewFieldValues == {JsonNull, JsonString(<< "1" >>), JsonString(<< "x" >>)}

\* A field as ffprobe writes it.
GoodField == JsonString(<< "1" >>)

ProbeInput(st, d, sz, br, streams, rot, w, h) ==
    [stats |-> st, duration |-> d, size |-> sz, bit_rate |-> br,
     streams |-> streams, rotation |-> rot, width |-> w, height |-> h]

\* What get_video_stats and the JSON parse can deliver: a failure; any
\* streams value with a few values of the first format field; every value
\* of one format field with a few values of another; any sizes with the
\* accepted rotations; every rotation value with well-formed format fields.
ProbeInputs ==
    { ProbeInput(st, GoodField, GoodField, GoodField, "video", JsonNull, 1, 2) :
        st \in {"FfmpegNotFound", "Utf8Conversion", "JsonError"} }
    \cup { ProbeInput("ok", d, GoodField, GoodField, streams, JsonNull, 1, 2) :
            d \in FewFieldValues,
            streams \in {"not_array", "no_video", "video"} }
    \cup { ProbeInput("ok", d, sz, GoodField, "video", JsonNull, 1, 2) :
            d \in FieldValues, sz \in FewFieldValues }
    \cup { ProbeInput("ok", GoodField, sz, br, "video", JsonNull, 1, 2) :
            sz \in FieldValues, br \in FewFieldValues }
    \cup { ProbeInput("ok", d, GoodField, br, "video", JsonNull, 1, 2) :
            d \in FewFieldValues, br \in FieldValues }
    \cup { ProbeInput("ok", GoodField, GoodField, GoodField, "video", rot, w, h) :
            rot \in {JsonNull}
                     \cup { JsonNumber("i64", n) : n \in {0, 90, 180, 270, -90, -180} }
                     \cup { JsonString(I64ToString(n)) : n \in {0, 90, 180, 270, -90} },
            w \in 0..MaxDim, h \in 0..MaxDim }
    \cup { ProbeInput("ok", GoodField, GoodField, GoodField, "video", rot, 1, 2) :
            rot \in RotationValues }

InitInfo ==
    /\ i_pc = "parsed"
    /\ i_input \in ProbeInputs
    /\ i_result = << >>
    /\ FramesIdle
    /\ ExitIdle
    /\ RunIdle
    /\ AllocIdle
    /\ CropIdle

VideoInfoNew ==
    /\ i_pc = "parsed"
    /\ i_result' = VideoInfoOf(i_input)
    /\ i_pc' = "done"
    /\ UNCHANGED << nonInfo, i_input >>

NextInfo == VideoInfoNew

SpecInfo == InitInfo /\ [][NextInfo]_vars

-----------------------------------------------------------------------------
(* The end of run_ffmpeg_command: thread.join() and the match on its result  *)

\* chars().take(500)
ErrMsgChars == 500
\* Longest run of arbitrary bytes at the end of a captured stderr.
MaxTail == 3
\* Largest exit code of the child.
MaxExitCode == 1

\* Bytes of a captured stream, by their role in UTF-8: "a" is an ASCII byte,
\* "L" the lead byte of a two-byte character, "c" a continuation byte and
\* "X" a byte that occurs in no UTF-8 text.
ByteKinds == {"a", "L", "c", "X"}

\* std::str::from_utf8(&stderr) is Ok
Utf8Valid(bytes) ==
    \A i \in 1..Len(bytes) :
        /\ bytes[i] # "X"
        /\ bytes[i] = "L" => (i < Len(bytes) /\ bytes[i + 1] = "c")
        /\ bytes[i] = "c" => (i > 1 /\ bytes[i - 1] = "L")

\* The characters of a valid text, each named by its first byte.
Utf8Chars(bytes) == SelectSeq(bytes, LAMBDA b : b # "c")

Take(seq, n) == SubSeq(seq, 1, Min(n, Len(seq)))

\* [mutant] the whole text is kept
truncate_ffmpeg_err_msg_All(stderr) ==
    IF Utf8Valid(stderr)
       THEN CmdErr("FfmpegInternal", Utf8Chars(stderr))
       ELSE CmdErr("Utf8Conversion", << >>)

\* fn truncate_ffmpeg_err_msg(stderr: Vec<u8>) -> FfmpegErrorKind
truncate_ffmpeg_err_msg(stderr) ==
    IF Utf8Valid(stderr)
       THEN CmdErr("FfmpegInternal", Take(Utf8Chars(stderr), ErrMsgChars))
       ELSE CmdErr("Utf8Conversion", << >>)

ExitOk(code) == [ok |-> TRUE, code |-> code, kind |-> "none"]
ExitErr(kind) == [ok |-> FALSE, code |-> 0, kind |-> kind]

\* match exit_status { Err(e) => .., Ok(status) => .. }
RunOutcome(exit_status, out_acc, err_acc) ==
    IF ~exit_status.ok
       THEN IF exit_status.kind = "NotFound"
               THEN CmdErr("FfmpegNotFound", << >>)
               ELSE CmdErr("Io", exit_status.kind)
    ELSE IF exit_status.code = 0
       THEN CmdOk(out_acc)
    ELSE truncate_ffmpeg_err_msg(err_acc)

Tails == UNION { [1..k -> ByteKinds] : k \in 0..MaxTail }

\* Captured stderr contents: a run of ASCII bytes, of a length at either
\* side of the limit, followed by a few arbitrary bytes.
StderrTexts ==
    { [i \in 1..n |-> "a"] \o tail :
        n \in {0} \cup ((ErrMsgChars - 2)..(ErrMsgChars + 1)), tail \in Tails }

\* What thread.join() delivers: the child's exit status, the watchdog's
\* timeout, or an error of try_wait.
ExitStatuses ==
    { ExitOk(c) : c \in 0..MaxExitCode } \cup { ExitErr("TimedOut"), ExitErr("Other") }

InitExit ==
    /\ e_pc = "joined"
    /\ e_input \in [exit_status : ExitStatuses,
                    stdout_acc : {<< >>, << "a" >>},
                    stderr_acc : StderrTexts]
    /\ e_result = << >>
    /\ FramesIdle
    /\ InfoIdle
    /\ RunIdle
    /\ AllocIdle
    /\ CropIdle

RunFinish ==
    /\ e_pc = "joined"
    /\ e_result' = RunOutcome(e_input.exit_status, e_input.stdout_acc,
                              e_input.stderr_acc)
    /\ e_pc' = "done"
    /\ UNCHANGED << nonExit, e_input >>

NextExit == RunFinish

SpecExit == InitExit /\ [][NextExit]_vars

-----------------------------------------------------------------------------
(* run_ffmpeg_command: the calling thread, the watchdog thread, the child   *)

\* const FFPROBE_TIMEOUT_SECS: usize = 60
FFPROBE_TIMEOUT_SECS == 60
\* let max_initial_fast_counts = 100
max_initial_fast_counts == 100
\* let mut read_buf = [0u8; 4096]
ReadBufLen == 4096
\* Most bytes the child writes to its stdout.
MaxOut == 2
\* Most bytes the child writes to its stderr.
MaxErr == 2
\* Capacity of each of the child's pipes.
RunPipeCap == 1

\* Bytes i + 1 .. i + n of the stream named src.
StreamBytes(src, i, n) == [ k \in 1..n |-> << src, i + k >> ]

\* The bytes the child writes are ASCII text.
KindsOf(acc) == [ k \in 1..Len(acc) |-> "a" ]

OutAvail == out_written - out_read
ErrAvail == err_written - err_read

\* the write ends of the child's pipes are closed once the child is gone
ChildGone == r_child \in {"exited", "reaped"}

InitRun ==
    /\ r_pc = "call"
    /\ r_stderr_null \in BOOLEAN
    /\ NoRun
    /\ FramesIdle
    /\ InfoIdle
    /\ ExitIdle
    /\ AllocIdle
    /\ CropIdle

\* let mut child = spawn_ffmpeg_command(name, args, stderr_null)?; the pipe
\* handles are taken and the watchdog thread is spawned. What the child is
\* going to write is fixed by the tool and its arguments.
RunSpawn ==
    /\ r_pc = "call"
    /\ \E outcome \in {"ok"} \cup SpawnFailures :
          /\ r_spawn' = outcome
          /\ IF outcome = "ok"
                THEN /\ r_child' = "running"
                     /\ \E o \in 0..MaxOut : out_total' = o
                     /\ \E e \in 0..MaxErr : err_total' = e
                     /\ w_pc' = "poll"
                     /\ stdout_done' = FALSE
                     /\ stderr_done' = r_stderr_null
                     /\ r_pc' = "drain"
                     /\ UNCHANGED r_result
                ELSE /\ r_result' = SpawnError(outcome)
                     /\ r_pc' = "returned"
                     /\ UNCHANGED << r_child, out_total, err_total, w_pc,
                                     stdout_done, stderr_done >>
    /\ UNCHANGED << nonRun, r_stderr_null, stdout_acc, stderr_acc, r_pipe_read,
                    r_read_failed, timeout_counter_secs, initial_fast_counts,
                    w_result, polls, sleeps, r_code, out_written, out_read, err_written,
                    err_read >>

\* while !(stdout_done && stderr_done)
DrainHead ==
    /\ r_pc = "drain"
    /\ r_pc' = IF stdout_done /\ stderr_done THEN "join" ELSE "read_out"
    /\ UNCHANGED << nonRun, r_stderr_null, r_spawn, stdout_done, stderr_done,
                    stdout_acc, stderr_acc, r_result, r_pipe_read, r_read_failed,
                    watchdogVars, childVars >>

\* if !stdout_done is false
SkipStdout ==
    /\ r_pc = "read_out"
    /\ stdout_done
    /\ r_pc' = "read_err"
    /\ UNCHANGED << nonRun, r_stderr_null, r_spawn, stdout_done, stderr_done,
                    stdout_acc, stderr_acc, r_result, r_pipe_read, r_read_failed,
                    watchdogVars, childVars >>

\* stdout.read(&mut read_buf) returns Ok(amount), amount > 0
ReadStdoutData ==
    /\ r_pc = "read_out"
    /\ ~stdout_done
    /\ OutAvail > 0
    /\ \E amount \in 1..Min(OutAvail, ReadBufLen) :
          /\ stdout_acc' = stdout_acc \o StreamBytes("stdout", out_read, amount)
          /\ out_read' = out_read + amount
    /\ r_pipe_read' = TRUE
    /\ r_pc' = "read_err"
    /\ UNCHANGED << nonRun, r_stderr_null, r_spawn, stdout_done, stderr_done,
                    stderr_acc, r_result, r_read_failed, watchdogVars, r_child,
                    r_code, out_total, err_total, out_written, err_written,
                    err_read >>

\* The Err(_) | Ok(0) arm of the read of stdout: Ok(0) needs the pipe empty
\* and its write end closed, Err(_) (failed) can come at any read.
ReadStdoutEndAs(failed) ==
    /\ r_pc = "read_out"
    /\ ~stdout_done
    /\ ~failed => (OutAvail = 0 /\ ChildGone)
    /\ r_read_failed' = (r_read_failed \/ failed)
    /\ stdout_done' = TRUE
    /\ r_pipe_read' = TRUE
    /\ r_pc' = "read_err"
    /\ UNCHANGED << nonRun, r_stderr_null, r_spawn, stderr_done, stdout_acc,
                    stderr_acc, r_result, watchdogVars, childVars >>

\* stdout.read returns Ok(0) (the pipe is empty and closed) or Err(_)
ReadStdoutEnd == \E failed \in BOOLEAN : ReadStdoutEndAs(failed)

\* if !stderr_done is false
SkipStderr ==
    /\ r_pc = "read_err"
    /\ stderr_done
    /\ r_pc' = "drain"
    /\ UNCHANGED << nonRun, r_stderr_null, r_spawn, stdout_done, stderr_done,
                    stdout_acc, stderr_acc, r_result, r_pipe_read, r_read_failed,
                    watchdogVars, childVars >>

\* [mutant] what is read from stderr is appended to the stdout accumulator
ReadStderrData_IntoStdout ==
    /\ r_pc = "read_err"
    /\ ~stderr_done
    /\ ErrAvail > 0
    /\ \E amount \in 1..Min(ErrAvail, ReadBufLen) :
          /\ stdout_acc' = stdout_acc \o StreamBytes("stderr", err_read, amount)
          /\ err_read' = err_read + amount
    /\ r_pipe_read' = TRUE
    /\ r_pc' = "drain"
    /\ UNCHANGED << nonRun, r_stderr_null, r_spawn, stdout_done, stderr_done,
                    stderr_acc, r_result, r_read_failed, watchdogVars, r_child,
                    r_code, out_total, err_total, out_written, out_read,
                    err_written >>

\* stderr.as_mut().unwrap().read(&mut read_buf) returns Ok(amount), amount > 0
ReadStderrData ==
    /\ r_pc = "read_err"
    /\ ~stderr_done
    /\ ErrAvail > 0
    /\ \E amount \in 1..Min(ErrAvail, ReadBufLen) :
          /\ stderr_acc' = stderr_acc \o StreamBytes("stderr", err_read, amount)
          /\ err_read' = err_read + amount
    /\ r_pipe_read' = TRUE
    /\ r_pc' = "drain"
    /\ UNCHANGED << nonRun, r_stderr_null, r_spawn, stdout_done, stderr_done,
                    stdout_acc, r_result, r_read_failed, watchdogVars, r_child,
                    r_code, out_total, err_total, out_written, out_read,
                    err_written >>

\* The Err(_) | Ok(0) arm of the read of stderr.
ReadStderrEndAs(failed) ==
    /\ r_pc = "read_err"
    /\ ~stderr_done
    /\ ~failed => (ErrAvail = 0 /\ ChildGone)
    /\ r_read_failed' = (r_read_failed \/ failed)
    /\ stderr_done' = TRUE
    /\ r_pipe_read' = TRUE
    /\ r_pc' = "drain"
    /\ UNCHANGED << nonRun, r_stderr_null, r_spawn, stdout_done, stdout_acc,
                    stderr_acc, r_result, watchdogVars, childVars >>

\* the read of stderr returns Ok(0) or Err(_)
ReadStderrEnd == \E failed \in BOOLEAN : ReadStderrEndAs(failed)

\* let exit_status = thread.join(); match exit_status { .. }
RunJoin ==
    /\ r_pc = "join"
    /\ w_pc = "done"
    /\ r_result' = RunOutcome(w_result, stdout_acc, KindsOf(stderr_acc))
    /\ r_pc' = "returned"
    /\ UNCHANGED << nonRun, r_stderr_null, r_spawn, stdout_done, stderr_done,
                    stdout_acc, stderr_acc, r_pipe_read, r_read_failed,
                    watchdogVars, childVars >>

\* [mutant] the watchdog kills and reaps the child when it gives up
WatchdogPoll_KillOnTimeout ==
    /\ w_pc = "poll"
    /\ IF timeout_counter_secs < FFPROBE_TIMEOUT_SECS
          THEN IF r_child = "exited"
                  THEN /\ r_child' = "reaped"
                       /\ w_result' = ExitOk(r_code)
                       /\ w_pc' = "done"
                  ELSE /\ w_pc' = "sleep"
                       /\ UNCHANGED << r_child, w_result >>
          ELSE /\ w_result' = ExitErr("TimedOut")
               /\ w_pc' = "done"
               /\ r_child' = "reaped"
    /\ polls' = IF timeout_counter_secs < FFPROBE_TIMEOUT_SECS
                   THEN polls + 1 ELSE polls
    /\ UNCHANGED << nonRun, callerVars, timeout_counter_secs, initial_fast_counts,
                    sleeps, r_code, out_total, err_total, out_written, out_read,
                    err_written, err_read >>

\* while timeout_counter_secs < FFPROBE_TIMEOUT_SECS { child.try_wait() .. },
\* up to the sleep; after the loop, Err(TimedOut)
WatchdogPoll ==
    /\ w_pc = "poll"
    /\ IF timeout_counter_secs < FFPROBE_TIMEOUT_SECS
          THEN IF r_child = "exited"
                  THEN /\ r_child' = "reaped"
                       /\ w_result' = ExitOk(r_code)
                       /\ w_pc' = "done"
                  ELSE /\ w_pc' = "sleep"
                       /\ UNCHANGED << r_child, w_result >>
          ELSE /\ w_result' = ExitErr("TimedOut")
               /\ w_pc' = "done"
               /\ UNCHANGED r_child
    /\ polls' = IF timeout_counter_secs < FFPROBE_TIMEOUT_SECS
                   THEN polls + 1 ELSE polls
    /\ UNCHANGED << nonRun, callerVars, timeout_counter_secs, initial_fast_counts,
                    sleeps, r_code, out_total, err_total, out_written, out_read,
                    err_written, err_read >>

\* child.try_wait() returns Err(e)
WatchdogWaitError ==
    /\ w_pc = "poll"
    /\ timeout_counter_secs < FFPROBE_TIMEOUT_SECS
    /\ w_result' = ExitErr("Other")
    /\ w_pc' = "done"
    /\ polls' = polls + 1
    /\ UNCHANGED << nonRun, callerVars, timeout_counter_secs, initial_fast_counts,
                    sleeps, childVars >>

\* [mutant] the fast phase does not count its second
WatchdogSleep_FastUncounted ==
    /\ w_pc = "sleep"
    /\ IF initial_fast_counts < max_initial_fast_counts
          THEN /\ sleeps' = [sleeps EXCEPT !.fast = @ + 1]
               /\ initial_fast_counts' = initial_fast_counts + 1
               /\ UNCHANGED timeout_counter_secs
          ELSE /\ sleeps' = [sleeps EXCEPT !.slow = @ + 1]
               /\ timeout_counter_secs' = timeout_counter_secs + 1
               /\ UNCHANGED initial_fast_counts
    /\ w_pc' = "poll"
    /\ UNCHANGED << nonRun, callerVars, w_result, polls, childVars >>

\* the Ok(None) arm: a sleep of 10 ms (Duration::from_millis(10)) or of 1 s
\* (Duration::from_millis(1_000)), and the counters
WatchdogSleep ==
    /\ w_pc = "sleep"
    /\ IF initial_fast_counts < max_initial_fast_counts
          THEN /\ sleeps' = [sleeps EXCEPT !.fast = @ + 1]
               /\ initial_fast_counts' = initial_fast_counts + 1
               /\ timeout_counter_secs' =
                     IF initial_fast_counts + 1 = max_initial_fast_counts
                        THEN timeout_counter_secs + 1
                        ELSE timeout_counter_secs
          ELSE /\ sleeps' = [sleeps EXCEPT !.slow = @ + 1]
               /\ timeout_counter_secs' = timeout_counter_secs + 1
               /\ UNCHANGED initial_fast_counts
    /\ w_pc' = "poll"
    /\ UNCHANGED << nonRun, callerVars, w_result, polls, childVars >>

\* The child writes to its stdout.
ChildWriteStdout ==
    /\ r_child = "running"
    /\ \E n \in 1..Min(out_total - out_written, RunPipeCap - OutAvail) :
          out_written' = out_written + n
    /\ UNCHANGED << nonRun, callerVars, watchdogVars, r_child, r_code, out_total,
                    err_total, out_read, err_written, err_read >>

\* The child writes to its stderr: into the pipe, or into the null device
\* when stderr_null.
ChildWriteStderr ==
    /\ r_child = "running"
    /\ \E n \in 1..(err_total - err_written) :
          /\ r_stderr_null \/ n <= RunPipeCap - ErrAvail
          /\ err_written' = err_written + n
          /\ err_read' = IF r_stderr_null THEN err_read + n ELSE err_read
    /\ UNCHANGED << nonRun, callerVars, watchdogVars, r_child, r_code, out_total,
                    err_total, out_written, out_read >>

\* The child has written everything and exits, which closes its pipes.
ChildExit ==
    /\ r_child = "running"
    /\ out_written = out_total
    /\ err_written = err_total
    /\ \E code \in 0..MaxExitCode : r_code' = code
    /\ r_child' = "exited"
    /\ UNCHANGED << nonRun, callerVars, watchdogVars, out_total, err_total,
                    out_written, out_read, err_written, err_read >>

NextRun ==
    \/ RunSpawn
    \/ DrainHead
    \/ SkipStdout
    \/ ReadStdoutData
    \/ ReadStdoutEnd
    \/ SkipStderr
    \/ ReadStderrData
    \/ ReadStderrEnd
    \/ RunJoin
    \/ WatchdogPoll
    \/ WatchdogWaitError
    \/ WatchdogSleep
    \/ ChildWriteStdout
    \/ ChildWriteStderr
    \/ ChildExit

SpecRun == InitRun /\ [][NextRun]_vars

\* The calling thread and the watchdog thread are both scheduled: each takes
\* its next step when that step can be taken. A read returns when the pipe
\* has data or is at end-of-stream; nothing obliges a read to fail, the
\* child to write or exit, or try_wait to fail.
FairRun ==
    /\ WF_vars(DrainHead)
    /\ WF_vars(SkipStdout)
    /\ WF_vars(ReadStdoutData)
    /\ WF_vars(ReadStdoutEndAs(FALSE))
    /\ WF_vars(SkipStderr)
    /\ WF_vars(ReadStderrData)
    /\ WF_vars(ReadStderrEndAs(FALSE))
    /\ WF_vars(RunJoin)
    /\ WF_vars(WatchdogPoll)
    /\ WF_vars(WatchdogSleep)

SpecRunFair == SpecRun /\ FairRun

-----------------------------------------------------------------------------
(* Claims about FfmpegFrameReaderBuilder::spawn and FfmpegFrames, under Spec *)

\* width * height * 3, the size of one frame in the decoder's stream
FrameBytes == x * y * 3

\* C1: with no timeout configured and no read error, once next() has
\* returned None the caller has received exactly min(frame limit, number of
\* complete frames in the decoder's stream) frames, each of
\* width*height*3 bytes, and the latest call returned None.
C1_FramesYielded ==
    (spawn_result = "Ok" /\ cfg_timeout_secs = None /\ ~read_failed /\ saw_none)
        => /\ last_result = "None"
           /\ pc \in {"idle", "dropped"}
           /\ Len(frames) = Min(num_frames, stream_len \div FrameBytes)
           /\ \A i \in 1..Len(frames) : Len(frames[i]) = FrameBytes

\* The stream holds one complete frame and a partial one, the limit is two:
\* one frame was returned, then None.
C1_Witness ==
    /\ spawn_result = "Ok" /\ cfg_timeout_secs = None /\ ~read_failed /\ saw_none
    /\ num_frames = 2 /\ FrameBytes = 3 /\ stream_len = 5
    /\ Len(frames) = 1 /\ finished_by = "eof"

\* C2: finished is absorbing: a step taken with finished set leaves it set,
\* returns no frame and adds none to what the caller received.
C2_FinishedAbsorbing ==
    [][finished => (finished' /\ frames' = frames /\ last_result' = "None")]_vars

\* A read error ended the sequence while the decoder still had a complete
\* frame to deliver, and next() was called again (that call reaped the child).
C2_Witness ==
    /\ finished /\ finished_by = "read_error" /\ child = "reaped" /\ pc = "idle"
    /\ stream_len >= consumed + FrameBytes

\* C3: whenever finished is set, the child has been killed and reaped.
C3_FinishedImpliesReaped == finished => child = "reaped"

\* C4: after drop the child has been killed and reaped.
C4_DropReaps == pc = "dropped" => child = "reaped"

\* Dropped mid-consumption: one frame of two was read, the sequence had not
\* ended.
C4_Witness ==
    /\ pc = "dropped" /\ ~finished /\ Len(frames) = 1 /\ num_frames = 2
    /\ child = "reaped"

\* A next() call that started after the deadline.
LateCall == call_start # -1 /\ call_start > timeout_time

\* C5: a next() call that starts after the deadline returns None; when it
\* started with fewer than N frames read the sequence has fewer than N
\* frames; and after the drop the child is reaped.
C5_DeadlineEndsSequence ==
    /\ LateCall => (last_result = "None" /\ finished /\ pc \in {"idle", "dropped"})
    /\ (LateCall /\ call_frames_read < num_frames) => Len(frames) < num_frames
    /\ (LateCall /\ pc = "dropped") => child = "reaped"

\* The deadline passed after one frame of two; the reader was then dropped.
C5_Witness ==
    /\ LateCall /\ pc = "dropped" /\ num_frames = 2 /\ Len(frames) = 1
    /\ finished_by = "deadline_at_start" /\ child = "reaped"

\* C6: a probed resolution with a zero dimension makes spawn return
\* InvalidResolution without the decoder being launched, and the decoder is
\* launched only with both dimensions non-zero.
C6_InvalidResolutionNoLaunch ==
    /\ (pc \notin {"builder", "check"} /\ stats.ok
            /\ (stats.resolution[1] = 0 \/ stats.resolution[2] = 0))
        => (spawn_result = "InvalidResolution" /\ ~launched /\ child = "none")
    /\ launched => (stats.ok /\ stats.resolution[1] # 0 /\ stats.resolution[2] # 0)

\* spawn returned InvalidResolution for a 0 x 2 video.
C6_Witness ==
    /\ spawn_result = "InvalidResolution" /\ stats.resolution = << 0, 2 >>
    /\ pc = "failed" /\ ~launched

\* C14: when the prober is not installed, so that VideoInfo::new fails with
\* FfmpegNotFound, spawn returns FfmpegNotFound.
C14_ProbeNotFoundReported ==
    (pc = "failed" /\ ~stats.ok /\ stats.err = "FfmpegNotFound")
        => spawn_result = "FfmpegNotFound"

\* C15: the k-th frame returned consists of bytes (k-1)*S + 1 .. k*S of the
\* decoder's stream, S = width*height*3, in stream order, whatever the sizes
\* of the chunks it was read in.
C15_FramesInStreamOrder ==
    \A k \in 1..Len(frames) :
        frames[k] = [ i \in 1..FrameBytes |-> (k - 1) * FrameBytes + i ]

\* Two frames of a 1 x 1 video were returned: bytes 1..3, then bytes 4..6.
C15_Witness ==
    /\ FrameBytes = 3 /\ last_result = "Some"
    /\ frames = << << 1, 2, 3 >>, << 4, 5, 6 >> >>

\* C16: in a session frames_read never exceeds num_frames, which is the
\* configured limit or u32::MAX, and frames_read is the number of frames
\* returned so far (so its increment has never wrapped).
C16_FramesReadBounded ==
    spawn_result = "Ok" =>
        /\ num_frames = UnwrapOr(cfg_num_frames, U32_MAX)
        /\ num_frames <= U32_MAX
        /\ frames_read <= num_frames
        /\ frames_read = Len(frames)

\* The limit of two frames was reached and the next call returned None.
C16_Witness ==
    /\ spawn_result = "Ok" /\ num_frames = 2 /\ frames_read = 2
    /\ Len(frames) = 2 /\ finished_by = "limit"

\* A read has returned without delivering a byte: Ok(0) or Err(_).
ReadGaveNothing == pc = "read" /\ pc' # "read" /\ consumed' = consumed

\* C17: a read that returns zero bytes or an error ends the call: finished is
\* set, None is returned, the buffer is discarded and the caller receives
\* nothing; and whenever the caller receives a frame it is the completely
\* filled buffer of width*height*3 bytes.
C17_PartialFrameDiscarded ==
    [][ /\ ReadGaveNothing =>
              /\ finished' /\ last_result' = "None" /\ pc' = "idle"
              /\ frames' = frames /\ frames_read' = frames_read
              /\ raw_buf' = << >>
        /\ frames' # frames =>
              /\ Len(raw_buf) = FrameBytes
              /\ frames' = Append(frames, raw_buf)
              /\ last_result' = "Some" ]_vars

\* The decoder exited after one frame and two bytes of the next: the caller
\* has the one frame, the two bytes were read and dropped.
C17_Witness ==
    /\ finished /\ finished_by = "eof" /\ last_result = "None"
    /\ FrameBytes = 3 /\ stream_len = 5 /\ consumed = 5
    /\ frames = << << 1, 2, 3 >> >> /\ raw_buf = << >>

\* A next() call is in progress and the deadline has passed.
CallPastDeadline == pc \in {"loop", "read"} /\ ExceededTimeout(now, timeout_time)

\* C18: a next() call in progress when the deadline passes eventually
\* returns, whatever the decoder does.
C18_CallEndsAfterDeadline == CallPastDeadline ~> pc = "idle"

\* C19: over the life of a session kill-then-wait is run on the child exactly
\* once: never more than once, and once the session has been dropped, once.
C19_TeardownExactlyOnce ==
    spawn_result = "Ok" =>
        /\ teardowns # "repeatedly"
        /\ pc = "dropped" => teardowns = "once"

-----------------------------------------------------------------------------
(* Claims about VideoInfo::new, under SpecInfo                              *)

\* The rotations the prober is expected to report, and what each stands for.
AcceptedRotations == {0, 90, 180, 270, -90, -180}

Normalized(n) ==
    CASE n = 0 -> "Rot0"
      [] n = 90 -> "Rot90"
      [] n \in {180, -180} -> "Rot180"
      [] n \in {-90, 270} -> "Rot270"

\* VideoInfo::new has returned for a probe that is well-formed up to the
\* rotation of its first video stream.
RotationDecides ==
    /\ i_pc = "done"
    /\ i_input.stats = "ok"
    /\ i_input.duration = GoodField
    /\ i_input.size = GoodField
    /\ i_input.bit_rate = GoodField
    /\ i_input.streams = "video"

\* C9: each accepted rotation is normalized to the same value whether it is
\* reported as a number or as a numeric string, and an absent rotation is
\* Rot0.
C9_RotationFormsAgree ==
    RotationDecides =>
        /\ i_input.rotation.t = "null" => (i_result.ok /\ i_result.rotation = "Rot0")
        /\ \A n \in AcceptedRotations :
              (\/ i_input.rotation = JsonNumber("i64", n)
               \/ i_input.rotation = JsonString(I64ToString(n)))
                  => (i_result.ok /\ i_result.rotation = Normalized(n))

\* An optional sign followed by one or more decimal digits.
IsIntegerText(str) ==
    LET ds == IF Len(str) > 0 /\ str[1] \in {"+", "-"} THEN Tail(str) ELSE str
    IN  Len(ds) > 0 /\ \A i \in 1..Len(ds) : ds[i] \in Digits

\* The integer such a text denotes.
IntegerTextValue(str) ==
    IF str[1] = "-" THEN 0 - DecVal(Tail(str))
    ELSE IF str[1] = "+" THEN DecVal(Tail(str))
    ELSE DecVal(str)

\* The rotation value is an integer outside the accepted values: a JSON
\* integer (one beyond i64 included) or the text of an integer.
BadIntegerRotation(val) ==
    \/ val.t = "number" /\ val.repr = "i64" /\ val.n \notin AcceptedRotations
    \/ val.t = "number" /\ val.repr = "u64"
    \/ val.t = "string" /\ IsIntegerText(val.s)
          /\ IntegerTextValue(val.s) \notin AcceptedRotations

\* C10: an integer rotation outside the accepted values, as a number or as
\* a string, makes VideoInfo::new fail with a parse error.
C10_BadRotationFails ==
    (RotationDecides /\ BadIntegerRotation(i_input.rotation))
        => (~i_result.ok /\ i_result.err = "ParseIntError")

\* The probe of a video whose rotation is the string "-70" failed with a
\* parse error.
C10_Witness ==
    /\ RotationDecides
    /\ i_input.rotation = JsonString(<< "-", "7", "0" >>)
    /\ ~i_result.ok /\ i_result.err = "ParseIntError"

\* The rotation the probed video declares, where it is one of the accepted
\* values in either form.
DeclaredRotation(val) ==
    IF val.t = "number" /\ val.repr = "i64" /\ val.n \in AcceptedRotations
       THEN << Normalized(val.n) >>
    ELSE IF val.t = "string" /\ IsIntegerText(val.s)
               /\ IntegerTextValue(val.s) \in AcceptedRotations
       THEN << Normalized(IntegerTextValue(val.s)) >>
    ELSE IF val.t = "null" THEN << "Rot0" >>
    ELSE << >>

\* C11: when VideoInfo::new succeeds for a video stream of width w and
\* height h, the resolution is (h, w) when the normalized rotation is 90 or
\* 270 degrees and (w, h) when it is 0 or 180 degrees; the normalized
\* rotation is the one the stream declares.
C11_ResolutionSwapped ==
    (i_pc = "done" /\ i_result.ok /\ i_input.streams = "video") =>
        /\ i_result.rotation \in {"Rot90", "Rot270"}
              => i_result.resolution = << i_input.height, i_input.width >>
        /\ i_result.rotation \in {"Rot0", "Rot180"}
              => i_result.resolution = << i_input.width, i_input.height >>
        /\ i_result.rotation \in {"Rot0", "Rot90", "Rot180", "Rot270"}
        /\ DeclaredRotation(i_input.rotation) # << >>
              => i_result.rotation = DeclaredRotation(i_input.rotation)[1]

\* A 1 x 2 video declared as rotated by -90 degrees was probed as 2 x 1.
C11_Witness ==
    /\ i_pc = "done" /\ i_result.ok /\ i_input.streams = "video"
    /\ i_input.rotation = JsonNumber("i64", -90)
    /\ i_input.width = 1 /\ i_input.height = 2
    /\ i_result.rotation = "Rot270"
    /\ i_result.resolution = << 2, 1 >>

\* The field is a string that its parse rejects.
UnparsableString(val, parsed) == val.t = "string" /\ ~parsed.ok

\* C22: a format field (duration, size, bit_rate) that is missing or not a
\* string yields 0 and does not fail the probe; a field that is a string
\* its parse rejects makes VideoInfo::new fail with the parse error of that
\* field (ParseFloatError for duration, ParseIntError for size and bit_rate).
C22_FormatFields ==
    (i_pc = "done" /\ i_input.stats = "ok") =>
        LET badDuration ==
                UnparsableString(i_input.duration, ParseF64(i_input.duration.s))
            badSize ==
                UnparsableString(i_input.size, ParseUnsigned(i_input.size.s, U64_MAX))
            badBitRate ==
                UnparsableString(i_input.bit_rate,
                                 ParseUnsigned(i_input.bit_rate.s, U32_MAX))
        IN  /\ badDuration => (~i_result.ok /\ i_result.err = "ParseFloatError")
            /\ (~badDuration /\ (badSize \/ badBitRate))
                  => (~i_result.ok /\ i_result.err = "ParseIntError")
            /\ (~badDuration /\ ~badSize /\ ~badBitRate
                    /\ i_input.rotation.t = "null") => i_result.ok
            /\ i_result.ok =>
                  /\ i_input.duration.t # "string" => i_result.duration = 0
                  /\ i_input.size.t # "string" => i_result.size = 0
                  /\ i_input.bit_rate.t # "string" => i_result.bit_rate = 0

\* The probe of a file without duration, with size "1" and with a bit_rate
\* given as a number succeeded with duration 0, size 1 and bit_rate 0.
C22_Witness ==
    /\ i_pc = "done" /\ i_result.ok
    /\ i_input.duration = JsonNull /\ i_result.duration = 0
    /\ i_input.size = JsonString(<< "1" >>) /\ i_result.size = 1
    /\ i_input.bit_rate = JsonNumber("i64", 1) /\ i_result.bit_rate = 0

-----------------------------------------------------------------------------
(* Claims about the end of run_ffmpeg_command, under SpecExit               *)

\* run_ffmpeg_command has returned for a child that exited non-zero.
NonZeroExitReturned ==
    /\ e_pc = "done"
    /\ e_input.exit_status.ok
    /\ e_input.exit_status.code # 0

\* The result is FfmpegInternal carrying the first min(500, length)
\* characters of the captured stderr.
CarriesTruncatedStderr ==
    LET chars == Utf8Chars(e_input.stderr_acc)
    IN  /\ e_result.tag = "FfmpegInternal"
        /\ Len(e_result.text) = Min(ErrMsgChars, Len(chars))
        /\ \A i \in 1..Len(e_result.text) : e_result.text[i] = chars[i]

\* C7 as stated: after a non-zero exit the result is FfmpegInternal with the
\* first min(500, length) characters of the captured stderr, whatever the
\* captured bytes are.
C7_NonZeroExitAnyStderr == NonZeroExitReturned => CarriesTruncatedStderr

\* C7 as amended: after a non-zero exit the result is FfmpegInternal with
\* the first min(500, length) characters of the captured stderr when the
\* captured bytes are valid UTF-8, and Utf8Conversion when they are not.
C7_NonZeroExitTruncated ==
    NonZeroExitReturned =>
        IF Utf8Valid(e_input.stderr_acc)
           THEN CarriesTruncatedStderr
           ELSE e_result.tag = "Utf8Conversion"

\* The captured stderr was 502 bytes, 501 characters, the 500th a two-byte
\* character; 500 characters were returned.
C7_Witness ==
    /\ NonZeroExitReturned
    /\ Len(e_input.stderr_acc) = ErrMsgChars + 2
    /\ Utf8Valid(e_input.stderr_acc)
    /\ e_input.stderr_acc[ErrMsgChars] = "L"
    /\ e_result.tag = "FfmpegInternal"
    /\ Len(e_result.text) = ErrMsgChars
    /\ e_result.text[ErrMsgChars] = "L"

-----------------------------------------------------------------------------
(* Claims about run_ffmpeg_command, under SpecRun                           *)

\* C8: when spawning the tool fails with NotFound the call returns
\* FfmpegNotFound, any other spawn failure returns Io carrying the error
\* kind, and in both cases no watchdog thread exists, no pipe has been read
\* and there is no child.
C8_SpawnFailureClassified ==
    r_spawn \in SpawnFailures =>
        /\ r_pc = "returned"
        /\ r_result = IF r_spawn = "NotFound"
                         THEN CmdErr("FfmpegNotFound", << >>)
                         ELSE CmdErr("Io", r_spawn)
        /\ w_pc = "none"
        /\ ~r_pipe_read
        /\ r_child = "none"

\* The tool was not found and the call has returned.
C8_Witness ==
    /\ r_spawn = "NotFound" /\ r_pc = "returned"
    /\ r_result.tag = "FfmpegNotFound" /\ w_pc = "none"

\* The watchdog has given up on the child.
WatchdogTimedOut == w_pc = "done" /\ w_result = ExitErr("TimedOut")

\* C12: once the watchdog has reached its ceiling with the child not exited,
\* the call eventually returns the timeout failure, whatever the child does.
C12_TimeoutReturns ==
    WatchdogTimedOut ~> (r_pc = "returned" /\ r_result = CmdErr("Io", "TimedOut"))

\* The calling thread is inside a read that cannot return: the pipe is empty
\* and the child still holds its write end.
CallerBlockedOnStdout ==
    r_pc = "read_out" /\ ~stdout_done /\ OutAvail = 0 /\ r_child = "running"

CallerBlockedOnStderr ==
    r_pc = "read_err" /\ ~stderr_done /\ ErrAvail = 0 /\ r_child = "running"

\* The child is inside a write that cannot return: all it has left to write
\* goes to a pipe that is full.
ChildBlockedOnStdout ==
    /\ r_child = "running" /\ err_written = err_total
    /\ out_written < out_total /\ OutAvail = RunPipeCap

ChildBlockedOnStderr ==
    /\ r_child = "running" /\ out_written = out_total
    /\ err_written < err_total /\ ErrAvail = RunPipeCap

\* C13: with stderr captured, no reachable state has the calling thread
\* blocked reading one stream while the child is blocked writing to the
\* other stream's full pipe.
C13_NoDrainDeadlock ==
    ~r_stderr_null =>
        /\ ~(CallerBlockedOnStdout /\ ChildBlockedOnStderr)
        /\ ~(CallerBlockedOnStderr /\ ChildBlockedOnStdout)

\* C20: no step of run_ffmpeg_command ends a running child: a running child
\* stops running only by exiting on its own, a step in which neither the
\* calling thread nor the watchdog moves; in particular the child that was
\* running when the watchdog gave up is running after that step.
C20_RunNeverKills ==
    [][ /\ (r_child = "running" /\ r_child' # "running")
              => (r_child' = "exited" /\ UNCHANGED << callerVars, watchdogVars >>)
        /\ (~WatchdogTimedOut /\ WatchdogTimedOut' /\ r_child = "running")
              => r_child' = "running" ]_vars

\* The call has returned the timeout failure (after a read error ended the
\* drain loop) and the child is still running.
C20_Witness ==
    /\ r_pc = "returned" /\ r_result = CmdErr("Io", "TimedOut")
    /\ WatchdogTimedOut /\ r_child = "running"

C23_WatchdogSchedule ==
    w_pc # "none" =>
        /\ sleeps.fast <= 100 /\ sleeps.slow <= 59
        /\ sleeps.slow > 0 => sleeps.fast = 100
        /\ polls = sleeps.fast + sleeps.slow + (IF w_pc = "poll" THEN 0 ELSE 1)
              - (IF WatchdogTimedOut THEN 1 ELSE 0)
        /\ w_pc = "done" =>
              (w_result = ExitErr("TimedOut") <=> timeout_counter_secs = 60)
        /\ WatchdogTimedOut =>
              /\ polls = 159
              /\ 10 * sleeps.fast + 1000 * sleeps.slow = 60000
        /\ (w_pc = "done" /\ w_result.ok) =>
              /\ w_result = ExitOk(r_code) /\ r_child = "reaped"
              /\ 10 * sleeps.fast + 1000 * sleeps.slow < 60000

\* The watchdog has returned the timeout after its 159th poll.
C23_Witness ==
    /\ WatchdogTimedOut /\ polls = 159
    /\ sleeps = [fast |-> 100, slow |-> 59] /\ r_child = "running"

\* The step in which the watchdog leaves its loop and returns the timeout.
WatchdogReportsTimeout ==
    w_pc = "poll" /\ w_pc' = "done" /\ w_result' = ExitErr("TimedOut")

\* C25: in every step in which the watchdog returns the timeout the child is
\* still running; a child that has exited by then, its last sleep included,
\* is returned with its exit status.
C25_TimeoutOnlyWhileRunning ==
    [][WatchdogReportsTimeout => r_child = "running"]_vars

-----------------------------------------------------------------------------
(* The frame buffer of FfmpegFrames::next                                   *)

\* Largest width / height of a session whose buffer is sized.
MaxAllocDim == 5

\* image::RgbImage::from_raw(self.x, self.y, raw_buf): None when the buffer
\* holds fewer than width * height * 3 bytes, the product taken without
\* wraparound
from_raw(w, h, len) ==
    IF w * h * 3 <= len THEN Some([width |-> w, height |-> h, len |-> len])
                        ELSE None

\* A session spawn() has accepted: x and y are non-zero. The u32 product
\* panics on overflow in a build with overflow checks and wraps in one
\* without.
AllocInputs ==
    [x : 1..MaxAllocDim, y : 1..MaxAllocDim, overflow_checks : BOOLEAN]

InitAlloc ==
    /\ a_pc = "enter"
    /\ a_input \in AllocInputs
    /\ a_len = 0
    /\ FramesIdle
    /\ InfoIdle
    /\ ExitIdle
    /\ RunIdle
    /\ CropIdle

\* let mut raw_buf = vec![0u8; (self.x * self.y * 3) as usize]; the read
\* loop then fills the buffer from a stream that holds enough bytes
AllocBuffer ==
    /\ a_pc = "enter"
    /\ IF a_input.overflow_checks /\ a_input.x * a_input.y * 3 > U32_MAX
          THEN /\ a_pc' = "panicked"
               /\ UNCHANGED a_len
          ELSE /\ a_len' = RawBufLen(a_input.x, a_input.y)
               /\ a_pc' = "filled"
    /\ UNCHANGED << nonAlloc, a_input >>

\* Some(image::RgbImage::from_raw(self.x, self.y, raw_buf).unwrap())
BuildFrame ==
    /\ a_pc = "filled"
    /\ a_pc' = IF from_raw(a_input.x, a_input.y, a_len) = None
                 THEN "panicked" ELSE "built"
    /\ UNCHANGED << nonAlloc, a_input, a_len >>

NextAlloc ==
    \/ AllocBuffer
    \/ BuildFrame

SpecAlloc == InitAlloc /\ [][NextAlloc]_vars

\* C24: for every accepted resolution the buffer of next() has length
\* width * height * 3, the product taken without wraparound, and the frame
\* is built from it without failure.
C24_BufferLengthExact ==
    /\ a_pc # "panicked"
    /\ a_pc \in {"filled", "built"} => a_len = a_input.x * a_input.y * 3

-----------------------------------------------------------------------------
(* Crop (src/video_frames.rs)                                               *)

\* Largest width / height of a cropped frame, and largest measured side.
MaxCropDim == 2
\* Stack frames of Crop::new the thread's stack holds.
MaxCropDepth == 3

\* struct Crop
CropOf(res, l, r, t, b) ==
    [orig_res |-> res, left |-> l, right |-> r, top |-> t, bottom |-> b]

\* a + b in u32, in a build without overflow checks
WrapAdd(a, b) == (a + b) % Pow2(WordBits)

\* self.left + self.right < width && self.top + self.bottom < height
Valid(crop) ==
    /\ WrapAdd(crop.left, crop.right) < crop.orig_res[1]
    /\ WrapAdd(crop.top, crop.bottom) < crop.orig_res[2]

\* The same expression in a build with overflow checks panics when a sum it
\* evaluates exceeds u32::MAX; && evaluates the second sum only after the
\* first comparison held.
ValidPanics(crop) ==
    \/ crop.left + crop.right > U32_MAX
    \/ /\ crop.left + crop.right < crop.orig_res[1]
       /\ crop.top + crop.bottom > U32_MAX

CropRes == (0..MaxCropDim) \X (0..MaxCropDim)

CropSides == (0..MaxCropDim) \cup {U32_MAX}

Crops ==
    { CropOf(res, l, r, t, b) :
        res \in CropRes, l \in CropSides, r \in CropSides,
        t \in CropSides, b \in CropSides }

\* The crops of resolution res that Crop::new can return.
ReturnedCrops(res, checks) ==
    { c \in Crops : c.orig_res = res /\ Valid(c) /\ ~(checks /\ ValidPanics(c)) }

\* Crop::new has been called with some resolution and sides.
InitCrop ==
    /\ c_pc = "new"
    /\ c_input \in [overflow_checks : BOOLEAN, call : {"new"}]
    /\ c_self \in Crops
    /\ c_depth = 1
    /\ c_result = << >>
    /\ FramesIdle
    /\ InfoIdle
    /\ ExitIdle
    /\ RunIdle
    /\ AllocIdle

\* Crop::new: Self { orig_res, left, right, top, bottom }.validate_or_default()
CropNew ==
    /\ c_pc = "new"
    /\ c_pc' = "validate"
    /\ UNCHANGED << nonCrop, c_input, c_self, c_depth, c_result >>

\* validate_or_default: self when valid, else Crop::new(self.orig_res, 0, 0,
\* 0, 0), a call that needs one more stack frame
validate_or_default ==
    /\ c_pc = "validate"
    /\ IF c_input.overflow_checks /\ ValidPanics(c_self)
          THEN /\ c_pc' = "panicked"
               /\ UNCHANGED << c_self, c_depth, c_result >>
          ELSE IF Valid(c_self)
                  THEN /\ c_result' = Some(c_self)
                       /\ c_pc' = "returned"
                       /\ UNCHANGED << c_self, c_depth >>
                  ELSE IF c_depth < MaxCropDepth
                          THEN /\ c_self' = CropOf(c_self.orig_res, 0, 0, 0, 0)
                               /\ c_depth' = c_depth + 1
                               /\ c_pc' = "new"
                               /\ UNCHANGED c_result
                          ELSE /\ c_pc' = "aborted"
                               /\ UNCHANGED << c_self, c_depth, c_result >>
    /\ UNCHANGED << nonCrop, c_input >>

\* Crop::union: the returned crop with another crop of the same resolution
union ==
    /\ c_pc = "returned"
    /\ c_input.call = "new"
    /\ \E other \in ReturnedCrops(c_result[1].orig_res, c_input.overflow_checks) :
          c_self' = CropOf(c_result[1].orig_res,
                           Min(c_result[1].left, other.left),
                           Min(c_result[1].right, other.right),
                           Min(c_result[1].top, other.top),
                           Min(c_result[1].bottom, other.bottom))
    /\ c_input' = [c_input EXCEPT !.call = "union"]
    /\ c_depth' = 1
    /\ c_result' = << >>
    /\ c_pc' = "new"
    /\ UNCHANGED nonCrop

NextCrop ==
    \/ CropNew
    \/ validate_or_default
    \/ union

SpecCrop == InitCrop /\ [][NextCrop]_vars

\* C26: Crop::new and Crop::union return for every resolution and all
\* sides, a zero width or height and a frame that is letterbox on every side
\* included, and the crop they return has left + right < width and
\* top + bottom < height.
C26_CropReturnsBounded ==
    /\ c_pc \notin {"panicked", "aborted"}
    /\ c_pc = "returned" =>
          /\ c_result[1].left + c_result[1].right < c_result[1].orig_res[1]
          /\ c_result[1].top + c_result[1].bottom < c_result[1].orig_res[2]

=============================================================================
